---- MODULE Spec2Model ----
(***************************************************************************)
(* Model of the real-time event synchronization client of the dashboard:   *)
(* Frontend/src/hooks/useTicketWebSocket.js.                                *)
(*                                                                         *)
(* The hook is a React function component hook built on the                *)
(* react-use-websocket hook.  Its state lives in React state cells; the    *)
(* socket callbacks (open, close, error, message) and the timer callbacks  *)
(* (heartbeat interval, reconnection delay) only WRITE state cells, and    *)
(* the hook's effects run at the next commit (Render), which React         *)
(* schedules as a separate task.  Values captured by a render (readyState, *)
(* lastJsonMessage) are therefore the values of the last commit, not read  *)
(* through to the socket.                                                  *)
(*                                                                         *)
(* What useWebSocket does behind the options and the three values the hook *)
(* takes from it (line 14) follows react-use-websocket: onopen calls       *)
(* onOpen, resets reconnectCount and sets readyState OPEN; onclose calls   *)
(* onClose, sets readyState CLOSED and, when shouldReconnect allows and    *)
(* reconnectCount < reconnectAttempts, arms one timeout of                 *)
(* reconnectInterval that increments reconnectCount and reconnects;        *)
(* sendMessage(message, keep = true) transmits on an OPEN socket and       *)
(* otherwise pushes the message on messageQueue, which an effect of the    *)
(* library flushes when readyState becomes OPEN (before the hook's own     *)
(* effects, which are declared after the useWebSocket call).               *)
(* A frame that JSON.parse rejects yields one shared empty object as       *)
(* lastJsonMessage.  On unmount the library cancels a pending reconnection *)
(* timeout, closes the socket and turns reconnect() into a no-op; the      *)
(* close handler stays attached to the closing socket.                     *)
(*                                                                         *)
(* The variables under "history" record what has happened; no action's     *)
(* guard reads them.                                                       *)
(***************************************************************************)
EXTENDS Integers, Sequences, FiniteSets, TLC

\* ---------------------------------------------------------------- bounds
MaxFrames == 2      \* inbound frames delivered in one run
MaxQueue  == 1      \* messages the library's messageQueue holds in the model
MaxSends  == 1      \* heartbeat ticks / consumer sends on one connection
MaxCloses == 1      \* connection losses in a run of SpecFrames
MaxRequests == 2    \* POST /api/tickets/send requests in flight in the model
MaxUploads  == 2    \* POST /api/agent/upload requests in flight in the model
MaxTimers   == 2    \* status-polling intervals running in the model

\* ----------------------------------------------------- program constants
reconnectAttempts == 10
reconnectInterval == 3000

\* ReadyState of react-use-websocket
CONNECTING     == 0
OPEN           == 1
CLOSING        == 2
CLOSED         == 3
UNINSTANTIATED == -1

ReadyStates == {UNINSTANTIATED, CONNECTING, OPEN, CLOSING, CLOSED}

StatusValues ==
  {"Uninstantiated", "Connecting", "Connected", "Closing", "Disconnected", "Error"}

\* connectionStatusMap with the CLOSING and CLOSED entries exchanged.
connectionStatusMapSwapped(rs) ==
  CASE rs = CONNECTING     -> "Connecting"
    [] rs = OPEN           -> "Connected"
    [] rs = CLOSING        -> "Disconnected"
    [] rs = CLOSED         -> "Closing"
    [] rs = UNINSTANTIATED -> "Uninstantiated"

\* connectionStatusMap without an entry for ReadyState.CLOSED.
connectionStatusMapNoClosed(rs) ==
  CASE rs = CONNECTING     -> "Connecting"
    [] rs = OPEN           -> "Connected"
    [] rs = CLOSING        -> "Closing"
    [] rs = UNINSTANTIATED -> "Uninstantiated"
    [] OTHER               -> "undefined"

\* connectionStatusMap[readyState]
connectionStatusMap(rs) ==
  CASE rs = CONNECTING     -> "Connecting"
    [] rs = OPEN           -> "Connected"
    [] rs = CLOSING        -> "Closing"
    [] rs = CLOSED         -> "Disconnected"
    [] rs = UNINSTANTIATED -> "Uninstantiated"
    [] OTHER               -> "undefined"     \* a key the object does not have

\* ------------------------------------------------------------ wire frames
\* A field of an inbound frame: present with an array value, present with
\* the value null, or absent (undefined after destructuring).
Absent      == [present |-> FALSE, null |-> FALSE, value |-> <<>>]
Field(arr)  == [present |-> TRUE,  null |-> FALSE, value |-> arr]
Null        == [present |-> TRUE,  null |-> TRUE,  value |-> <<>>]

\* A test that takes every present field, null included, as a payload.
TruthyIfPresent(f) == f.present

\* `if (newTimeline)`: an array, empty or not, is truthy; undefined and null
\* are not.
Truthy(f) == f.present /\ ~f.null

Frame(t, tl, pt) == [type |-> t, timeline |-> tl, pending_tickets |-> pt]

DefinedTags ==
  {"initial_data", "timeline_update", "pending_tickets_update",
   "ticket_update", "connection_established", "error"}

\* Arrays of entries in server order; entries are ticket identifiers.
\* <<2, 1>> is deliberately not in ascending order.
TimelineArrays == {<<1>>, <<2, 1>>}
PendingArrays  == {<<>>, <<2, 1>>}

InboundFrames ==
     {Frame("timeline_update", Field(a), Absent) : a \in TimelineArrays}
  \cup {Frame("pending_tickets_update", Absent, Field(a)) : a \in PendingArrays}
  \cup {Frame("initial_data", Field(<<1>>), Field(<<>>))}
  \cup {Frame("unsupported_xyz", Field(<<1>>), Field(<<2, 1>>))}

\* lastJsonMessage / lastMessage before any frame: null
NullMessage == Frame("null", Absent, Absent)

\* A frame whose text is not JSON, as it arrives on the socket.
Malformed == Frame("<malformed>", Absent, Absent)

\* What the library hands out for a frame it cannot parse: one shared empty
\* object, so its type, timeline and pending_tickets are undefined.
UNPARSABLE_JSON_OBJECT == Frame("undefined", Absent, Absent)

\* lastJsonMessage for a received frame: JSON.parse of its text.
parseJson(raw) == IF raw = Malformed THEN UNPARSABLE_JSON_OBJECT ELSE raw

\* The frames a run of SpecFrames draws from: initial_data with either
\* field missing, the informational types carrying timeline and
\* pending_tickets fields, and a malformed frame.
DispatchFrames ==
  {Frame("initial_data", Field(<<1>>), Absent),
   Frame("initial_data", Absent, Field(<<2, 1>>)),
   Frame("timeline_update", Field(<<2, 1>>), Absent),
   Frame("ticket_update", Field(<<1>>), Field(<<2, 1>>)),
   Frame("connection_established", Field(<<1>>), Absent),
   Frame("error", Absent, Field(<<2, 1>>)),
   Malformed}

\* The frames a run of SpecFields draws from: the two update types with the
\* field absent, null, an empty array and a non-empty array.
FieldFrames ==
       {Frame("timeline_update", f, Absent)
          : f \in {Absent, Null, Field(<<>>), Field(<<2, 1>>)}}
  \cup {Frame("pending_tickets_update", Absent, f)
          : f \in {Absent, Null, Field(<<>>), Field(<<2, 1>>)}}

\* The frame a run of SpecRecover draws from.
RecoverFrames == {Frame("timeline_update", Field(<<1>>), Absent)}

AllFrames == InboundFrames \cup DispatchFrames \cup FieldFrames

\* Client-originated frames
SubscribeFrame ==
  [type |-> "subscribe",
   subscriptions |-> <<"timeline_updates", "pending_tickets_updates", "ticket_updates">>]
PingFrame == [type |-> "ping", subscriptions |-> <<>>]
ConsumerMessages == {[type |-> "consumer", subscriptions |-> <<>>]}

VARIABLES
  \* browser
  webSocket,        \* readyState of webSocketRef.current (the live socket)
  wire,             \* client frames transmitted on the current socket, in order
  \* react-use-websocket
  libReadyState,    \* the library's readyState state cell (latest set value)
  lastJsonMessage,  \* the library's lastMessage state cell, decoded
  messagePending,   \* lastMessage was set since the last commit
  messageQueue,     \* messageQueue.current
  reconnectCount,   \* reconnectCount.current
  reconnectTimers,  \* pending reconnection timeouts, each holding its delay
  \* useTicketWebSocket
  timeline, pendingTickets, connectionStatus, lastMessage,
  readyState,       \* readyState as captured by the last commit
  renderedStatus,   \* connectionStatus as returned by the last commit
  pingInterval,     \* the heartbeat interval is active
  mounted,          \* the component using the hook is mounted
  \* environment
  inbound,          \* the frames the server sends in this run
  closeBudget,      \* connection losses the network may still cause
  \* history
  delivered,        \* number of inbound frames delivered to the socket
  dispatched,       \* number of frames the dispatch effect has processed
  redelivered,      \* the last dispatched frame equalled the one before it
  lastSend,         \* outcome of the last consumer send()
  lastClose,        \* how the last socket closed: "none", "clean", "abnormal"
  reopened,         \* a socket opened after a reconnection attempt
  prevMalformed,    \* the frame dispatched before the last one was unparsable
  lostStatus,       \* a status value overwritten before any commit showed it
  \* config.js
  env,              \* import.meta.env: VITE_API_URL and MODE
  socketUrl,        \* socketUrl as computed by the hook's render (<<>>: not yet)
  \* Dashboard.jsx
  processingTicket, systemInitialized,
  rendered,         \* processingTicket and systemInitialized as of the last render
  initializeInFlight,  \* POST /api/tickets/initialize is awaiting its response
  sendInFlight,     \* number of POST /api/tickets/send awaiting their response
  \* AgentUploadModal.jsx
  isOpen, files, loading, response, modalStatus, error,
  uploadsInFlight,  \* number of POST /api/agent/upload awaiting their response
  pollIntervals,    \* the setInterval timers that are running
  pollsInFlight,    \* the timers whose GET /api/agent/status awaits its response
  resetInFlight     \* POST /api/agent/reset is awaiting its response

hookVars == <<webSocket, wire, libReadyState, lastJsonMessage, messagePending,
          messageQueue, reconnectCount, reconnectTimers,
          timeline, pendingTickets, connectionStatus, lastMessage,
          readyState, renderedStatus, pingInterval, mounted,
          inbound, closeBudget,
          delivered, dispatched, redelivered, lastSend, lastClose, reopened,
          prevMalformed, lostStatus>>

configVars    == <<env, socketUrl>>
dashboardVars == <<processingTicket, systemInitialized, rendered,
                   initializeInFlight, sendInFlight>>
modalVars     == <<isOpen, files, loading, response, modalStatus, error,
                   uploadsInFlight, pollIntervals, pollsInFlight, resetInFlight>>
pageVars      == <<configVars, dashboardVars, modalVars>>

vars == <<hookVars, pageVars>>

connVars    == <<webSocket, libReadyState, reconnectCount, reconnectTimers,
                 lastClose, reopened>>
storeVars   == <<timeline, pendingTickets, lastMessage>>
messageVars == <<lastJsonMessage, messagePending, delivered, dispatched, redelivered>>
renderVars  == <<readyState, renderedStatus, pingInterval>>
mountVars   == <<mounted>>
envVars     == <<inbound, closeBudget>>

\* ---------------------------------------------------------------- config
\* A string is a sequence of pieces; "http://" and "https://" occur in it
\* only as whole pieces.
Modes == {"development", "production"}

\* Values of VITE_API_URL; <<>> is the variable not set (falsy).
ViteApiUrls ==
  {<<>>,
   <<"http://", "api.example.com">>,
   <<"https://", "api.example.com">>,
   <<"https://", "api.example.com", "/v1">>}

Envs == [VITE_API_URL : ViteApiUrls, MODE : Modes]

\* config.API_BASE_URL
API_BASE_URL(e) ==
  IF e.VITE_API_URL # <<>>
    THEN e.VITE_API_URL
    ELSE IF e.MODE = "production" THEN <<"/api">>
                                  ELSE <<"http://", "localhost:8002">>

\* String.prototype.replace with a string pattern: the first occurrence.
RECURSIVE replace(_, _, _)
replace(str, pattern, replacement) ==
  IF str = <<>> THEN <<>>
  ELSE IF Head(str) = pattern
         THEN <<replacement>> \o Tail(str)
         ELSE <<Head(str)>> \o replace(Tail(str), pattern, replacement)

\* The expression with the second replace left out.
socketUrlOfInsecureOnly(base) ==
  replace(base, "http://", "ws://") \o <<"/ws/tickets">>

\* The expression assigned to socketUrl.
socketUrlOf(base) ==
  replace(replace(base, "http://", "ws://"), "https://", "wss://")
    \o <<"/ws/tickets">>

\* ------------------------------------------------ page components: Init
\* Dashboard after its first render: the mount effect has sent the
\* initialize request.
InitDashboard ==
  /\ processingTicket = FALSE
  /\ systemInitialized = FALSE
  /\ rendered = [processingTicket |-> FALSE, systemInitialized |-> FALSE]
  /\ initializeInFlight = TRUE
  /\ sendInFlight = 0

\* AgentUploadModal after its first render, closed.
InitModal ==
  /\ isOpen = FALSE
  /\ files = "none"
  /\ loading = FALSE
  /\ response = FALSE
  /\ modalStatus = "null"
  /\ error = FALSE
  /\ uploadsInFlight = 0
  /\ pollIntervals = {}
  /\ pollsInFlight = {}
  /\ resetInFlight = FALSE

\* The page around the hook in the runs that follow the hook alone: the
\* development configuration, nobody touching Dashboard or the modal.
InitPageIdle ==
  /\ env = [VITE_API_URL |-> <<>>, MODE |-> "development"]
  /\ socketUrl = socketUrlOf(API_BASE_URL(env))
  /\ InitDashboard
  /\ InitModal

\* ------------------------------------------------------------------ Init
\* State after the first commit: useState initial values, the library has
\* created the socket (readyState CONNECTING), no frame received yet.
InitHook ==
  /\ webSocket = "CONNECTING"
  /\ wire = <<>>
  /\ libReadyState = CONNECTING
  /\ lastJsonMessage = NullMessage
  /\ messagePending = FALSE
  /\ messageQueue = <<>>
  /\ reconnectCount = 0
  /\ reconnectTimers = <<>>
  /\ timeline = <<>>
  /\ pendingTickets = <<>>
  /\ connectionStatus = "Connecting"
  /\ lastMessage = NullMessage
  /\ readyState = CONNECTING
  /\ renderedStatus = "Connecting"
  /\ pingInterval = FALSE
  /\ delivered = 0
  /\ dispatched = 0
  /\ redelivered = FALSE
  /\ lastSend = "none"
  /\ lastClose = "none"
  /\ reopened = FALSE
  /\ mounted = TRUE
  /\ prevMalformed = FALSE
  /\ lostStatus = "none"

\* A run in which the connection may be lost any number of times.
Init ==
  /\ InitHook
  /\ InitPageIdle
  /\ inbound = InboundFrames
  /\ closeBudget = [limited |-> FALSE, left |-> 0]

\* A run over the wider frame set, with at most MaxCloses connection losses.
InitFrames ==
  /\ InitHook
  /\ InitPageIdle
  /\ inbound = DispatchFrames
  /\ closeBudget = [limited |-> TRUE, left |-> MaxCloses]

\* A run in which the connection is lost at most MaxCloses times while the
\* hook is mounted: the server accepts a connection within the attempts.
InitRecover ==
  /\ InitHook
  /\ InitPageIdle
  /\ inbound = RecoverFrames
  /\ closeBudget = [limited |-> TRUE, left |-> MaxCloses]

\* A run over the frames with absent, null and empty fields, on a
\* connection that is not lost while the hook is mounted.
InitFields ==
  /\ InitHook
  /\ InitPageIdle
  /\ inbound = FieldFrames
  /\ closeBudget = [limited |-> TRUE, left |-> 0]

\* ------------------------------------------- react-use-websocket: sending
\* sendMessage(message, keep = true): transmit when the live socket is OPEN,
\* otherwise push on messageQueue.  Returns the new wire and queue.
sendMessage(msg, ws, w, q) ==
  IF ws = "OPEN"
    THEN [wire |-> Append(w, msg), queue |-> q]
    ELSE [wire |-> w, queue |-> Append(q, msg)]

\* messageQueue.current.splice(0).forEach(sendMessage)
RECURSIVE flushQueue(_, _, _, _)
flushQueue(pendingMsgs, ws, w, q) ==
  IF pendingMsgs = <<>>
    THEN [wire |-> w, queue |-> q]
    ELSE LET r == sendMessage(Head(pendingMsgs), ws, w, q)
         IN  flushQueue(Tail(pendingMsgs), ws, r.wire, r.queue)

\* --------------------------------------------- options passed to useWebSocket
onOpen(status)  == "Connected"       \* setConnectionStatus('Connected')
\* An onClose that only logs.
onCloseLogsOnly(status) == status
onClose(status) == "Disconnected"    \* setConnectionStatus('Disconnected')
onError(status) == "Error"           \* setConnectionStatus('Error')
\* A shouldReconnect that retries abnormal closes only.
shouldReconnectAbnormalOnly(closeEvent) == closeEvent
shouldReconnect(closeEvent) == TRUE

\* A commit is outstanding: some state cell differs from what the last
\* commit rendered.
CommitPending ==
  \/ libReadyState # readyState
  \/ messagePending
  \/ connectionStatus # renderedStatus

MaxWire == MaxQueue + 1 + MaxSends

\* ------------------------------------------------------- socket callbacks
\* A status value that the assignment of `next` overwrites before any commit
\* has shown it (history).
overwritten(next) ==
  IF connectionStatus # renderedStatus /\ connectionStatus # next
    THEN connectionStatus
    ELSE lostStatus

\* SocketOpen with the store reset for the fresh connection.
SocketOpenResetsStore ==
  /\ UNCHANGED pageVars
  /\ webSocket = "CONNECTING"
  /\ webSocket' = "OPEN"
  /\ connectionStatus' = onOpen(connectionStatus)
  /\ lostStatus' = overwritten(onOpen(connectionStatus))
  /\ reconnectCount' = 0
  /\ libReadyState' = OPEN
  /\ reopened' = (reopened \/ reconnectCount > 0)
  /\ timeline' = <<>>
  /\ pendingTickets' = <<>>
  /\ UNCHANGED <<wire, messageQueue, reconnectTimers, lastSend, lastClose, prevMalformed>>
  /\ UNCHANGED <<lastMessage, messageVars, renderVars, mountVars, envVars>>

\* The socket opens: webSocketInstance.onopen.
SocketOpen ==
  /\ UNCHANGED pageVars
  /\ webSocket = "CONNECTING"
  /\ webSocket' = "OPEN"
  /\ connectionStatus' = onOpen(connectionStatus)
  /\ lostStatus' = overwritten(onOpen(connectionStatus))
  /\ reconnectCount' = 0
  /\ libReadyState' = OPEN
  /\ reopened' = (reopened \/ reconnectCount > 0)
  /\ UNCHANGED <<wire, messageQueue, reconnectTimers, lastSend, lastClose, prevMalformed>>
  /\ UNCHANGED <<storeVars, messageVars, renderVars, mountVars, envVars>>

\* SocketClose with retryOnError set: the error handler arms a reconnection
\* timeout of its own before the close handler arms its one.
SocketCloseRetryOnError(abnormal) ==
  /\ UNCHANGED pageVars
  /\ webSocket \in {"CONNECTING", "OPEN", "CLOSING"}
  /\ mounted => (~closeBudget.limited \/ closeBudget.left > 0)
  /\ closeBudget' = IF mounted /\ closeBudget.limited
                      THEN [closeBudget EXCEPT !.left = @ - 1]
                      ELSE closeBudget
  /\ webSocket' = "CLOSED"
  /\ IF mounted
       THEN /\ connectionStatus' =
                 onClose(IF abnormal THEN onError(connectionStatus)
                                     ELSE connectionStatus)
            /\ lostStatus' = IF abnormal THEN onError(connectionStatus)
                                         ELSE overwritten(onClose(connectionStatus))
            /\ libReadyState' = CLOSED
       ELSE UNCHANGED <<connectionStatus, lostStatus, libReadyState>>
  /\ reconnectTimers' =
       IF shouldReconnect(abnormal) /\ reconnectCount < reconnectAttempts
         THEN (IF abnormal THEN <<reconnectInterval>> ELSE <<>>)
                \o Append(reconnectTimers, reconnectInterval)
         ELSE reconnectTimers
  /\ lastClose' = IF abnormal THEN "abnormal" ELSE "clean"
  /\ UNCHANGED <<wire, messageQueue, reconnectCount, reopened, lastSend, prevMalformed>>
  /\ UNCHANGED <<storeVars, messageVars, renderVars, mountVars, inbound>>

\* SocketClose with the attempt limit tested by <= instead of <.
SocketCloseOffByOne(abnormal) ==
  /\ UNCHANGED pageVars
  /\ webSocket \in {"CONNECTING", "OPEN", "CLOSING"}
  /\ mounted => (~closeBudget.limited \/ closeBudget.left > 0)
  /\ closeBudget' = IF mounted /\ closeBudget.limited
                      THEN [closeBudget EXCEPT !.left = @ - 1]
                      ELSE closeBudget
  /\ webSocket' = "CLOSED"
  /\ IF mounted
       THEN /\ connectionStatus' =
                 onClose(IF abnormal THEN onError(connectionStatus)
                                     ELSE connectionStatus)
            /\ lostStatus' = IF abnormal THEN onError(connectionStatus)
                                         ELSE overwritten(onClose(connectionStatus))
            /\ libReadyState' = CLOSED
       ELSE UNCHANGED <<connectionStatus, lostStatus, libReadyState>>
  /\ reconnectTimers' =
       IF shouldReconnect(abnormal) /\ reconnectCount <= reconnectAttempts
         THEN Append(reconnectTimers, reconnectInterval)
         ELSE reconnectTimers
  /\ lastClose' = IF abnormal THEN "abnormal" ELSE "clean"
  /\ UNCHANGED <<wire, messageQueue, reconnectCount, reopened, lastSend, prevMalformed>>
  /\ UNCHANGED <<storeVars, messageVars, renderVars, mountVars, inbound>>

\* The socket closes (abnormal: the browser fires error, then close, in the
\* same task): webSocketInstance.onerror, webSocketInstance.onclose.
\* After the unmount the handlers are still attached to the closing socket,
\* but the state setters no longer act: React drops setConnectionStatus on
\* an unmounted component and the library guards its own setReadyState.
SocketClose(abnormal) ==
  /\ UNCHANGED pageVars
  /\ webSocket \in {"CONNECTING", "OPEN", "CLOSING"}
  /\ mounted => (~closeBudget.limited \/ closeBudget.left > 0)
  /\ closeBudget' = IF mounted /\ closeBudget.limited
                      THEN [closeBudget EXCEPT !.left = @ - 1]
                      ELSE closeBudget
  /\ webSocket' = "CLOSED"
  /\ IF mounted
       THEN /\ connectionStatus' =
                 onClose(IF abnormal THEN onError(connectionStatus)
                                     ELSE connectionStatus)
            /\ lostStatus' = IF abnormal THEN onError(connectionStatus)
                                         ELSE overwritten(onClose(connectionStatus))
            /\ libReadyState' = CLOSED
       ELSE UNCHANGED <<connectionStatus, lostStatus, libReadyState>>
  /\ reconnectTimers' =
       IF shouldReconnect(abnormal) /\ reconnectCount < reconnectAttempts
         THEN Append(reconnectTimers, reconnectInterval)
         ELSE reconnectTimers
  /\ lastClose' = IF abnormal THEN "abnormal" ELSE "clean"
  /\ UNCHANGED <<wire, messageQueue, reconnectCount, reopened, lastSend, prevMalformed>>
  /\ UNCHANGED <<storeVars, messageVars, renderVars, mountVars, inbound>>

\* ReconnectTimerFires with reconnect() not stopped by the unmount.
ReconnectTimerFiresAfterUnmount ==
  /\ UNCHANGED pageVars
  /\ reconnectTimers # <<>>
  /\ mounted => ~CommitPending
  /\ reconnectTimers' = Tail(reconnectTimers)
  /\ reconnectCount' = reconnectCount + 1
  /\ libReadyState' = IF mounted THEN CONNECTING ELSE libReadyState
  /\ webSocket' = "CONNECTING"
  /\ wire' = <<>>
  /\ UNCHANGED <<messageQueue, connectionStatus, reopened, lastSend, lastClose,
                 prevMalformed, lostStatus>>
  /\ UNCHANGED <<storeVars, messageVars, renderVars, mountVars, envVars>>

\* A reconnection timeout elapses: reconnectCount.current++; reconnect().
\* The delay (3000 ms) is far longer than the time React takes to run an
\* outstanding commit, so the commit has run by then.  After the unmount
\* reconnect() returns without creating a socket.
ReconnectTimerFires ==
  /\ UNCHANGED pageVars
  /\ reconnectTimers # <<>>
  /\ mounted => ~CommitPending
  /\ reconnectTimers' = Tail(reconnectTimers)
  /\ reconnectCount' = reconnectCount + 1
  /\ IF mounted
       THEN /\ libReadyState' = CONNECTING
            /\ webSocket' = "CONNECTING"
            /\ wire' = <<>>
       ELSE UNCHANGED <<libReadyState, webSocket, wire>>
  /\ UNCHANGED <<messageQueue, connectionStatus, reopened, lastSend, lastClose,
                 prevMalformed, lostStatus>>
  /\ UNCHANGED <<storeVars, messageVars, renderVars, mountVars, envVars>>

\* An inbound frame arrives: webSocketInstance.onmessage sets lastMessage,
\* from which lastJsonMessage is parsed.  The dispatch effect depends on the
\* identity of lastJsonMessage: a parsed frame is a new object every time,
\* the object for an unparsable frame is always the same one, and the value
\* of the last commit is the one the hook stored in lastMessage.
Message(f) ==
  /\ UNCHANGED pageVars
  /\ webSocket = "OPEN"
  /\ f \in inbound
  /\ delivered < MaxFrames
  /\ lastJsonMessage' = parseJson(f)
  /\ messagePending' = (parseJson(f) # UNPARSABLE_JSON_OBJECT
                          \/ lastMessage # UNPARSABLE_JSON_OBJECT)
  /\ delivered' = delivered + 1
  /\ UNCHANGED <<wire, messageQueue, connectionStatus, lastSend, dispatched,
                 redelivered, prevMalformed, lostStatus>>
  /\ UNCHANGED <<connVars, storeVars, renderVars, mountVars, envVars>>

\* -------------------------------------------------------- timer callback
\* The heartbeat interval fires: sendMessage(JSON.stringify({type: 'ping'})).
PingTick ==
  /\ UNCHANGED pageVars
  /\ pingInterval
  /\ Len(wire) < MaxWire
  /\ Len(messageQueue) < MaxQueue
  /\ LET r == sendMessage(PingFrame, webSocket, wire, messageQueue)
     IN  /\ wire' = r.wire
         /\ messageQueue' = r.queue
  /\ UNCHANGED <<connectionStatus, lastSend, prevMalformed, lostStatus>>
  /\ UNCHANGED <<connVars, storeVars, messageVars, renderVars, mountVars, envVars>>

\* ------------------------------------------------------ consumer contract
\* The returned sendMessage(message) without its readyState guard.
ConsumerSendUnguarded(m) ==
  /\ UNCHANGED pageVars
  /\ mounted
  /\ Len(wire) < MaxWire
  /\ Len(messageQueue) < MaxQueue
  /\ LET r == sendMessage(m, webSocket, wire, messageQueue)
     IN  /\ wire' = r.wire
         /\ messageQueue' = r.queue
         /\ lastSend' = IF webSocket = "OPEN" THEN "transmitted" ELSE "queued"
  /\ UNCHANGED <<connectionStatus, prevMalformed, lostStatus>>
  /\ UNCHANGED <<connVars, storeVars, messageVars, renderVars, mountVars, envVars>>

\* The returned sendMessage(message): guarded by the rendered readyState.
\* The consumer holds it only while the component is mounted.
ConsumerSend(m) ==
  /\ UNCHANGED pageVars
  /\ mounted
  /\ Len(wire) < MaxWire
  /\ Len(messageQueue) < MaxQueue
  /\ IF readyState = OPEN
       THEN LET r == sendMessage(m, webSocket, wire, messageQueue)
            IN  /\ wire' = r.wire
                /\ messageQueue' = r.queue
                /\ lastSend' = IF webSocket = "OPEN" THEN "transmitted" ELSE "queued"
       ELSE /\ UNCHANGED <<wire, messageQueue>>
            /\ lastSend' = "dropped"
  /\ UNCHANGED <<connectionStatus, prevMalformed, lostStatus>>
  /\ UNCHANGED <<connVars, storeVars, messageVars, renderVars, mountVars, envVars>>

\* ------------------------------------------------------------------ unmount
\* The component using the hook unmounts (the Dashboard route is left).
\* Effect cleanups run: the hook's ping effect clears its interval; the
\* library marks the instance as expecting the close, cancels a pending
\* reconnection timeout, calls close() on the socket and sets its
\* lastMessage to null.
Unmount ==
  /\ UNCHANGED pageVars
  /\ mounted
  /\ mounted' = FALSE
  /\ lastJsonMessage' = NullMessage
  /\ messagePending' = FALSE
  /\ pingInterval' = FALSE
  /\ reconnectTimers' = <<>>
  /\ webSocket' = IF webSocket \in {"CONNECTING", "OPEN"} THEN "CLOSING" ELSE webSocket
  /\ UNCHANGED <<wire, messageQueue, libReadyState, reconnectCount, lastClose, reopened,
                 connectionStatus, readyState, renderedStatus, lastSend, prevMalformed,
                 lostStatus, delivered, dispatched, redelivered>>
  /\ UNCHANGED <<storeVars, envVars>>

\* -------------------------------------------------------- event dispatcher
\* A setter that merges the payload into the previous value.
setTimelineMerge(prev, next) == prev \o next

\* React's state setter called with a value: the value replaces the state.
setTimeline(prev, next) == next

\* A setter that patches the previous set with the payload.
setPendingTicketsAppend(prev, next) == prev \o next

setPendingTickets(prev, next) == next

\* The switch with the timeline assignment also reached from the default
\* branch.
dispatchTimelineDefaultApplies(f, tl) ==
  IF Truthy(f.timeline) THEN setTimeline(tl, f.timeline.value) ELSE tl

\* The switch with a frame that has no type tag taken as an empty snapshot.
dispatchTimelineUndefinedClears(f, tl) ==
  CASE f.type \in {"initial_data", "timeline_update"} ->
         IF Truthy(f.timeline) THEN setTimeline(tl, f.timeline.value) ELSE tl
    [] f.type = "undefined" -> setTimeline(tl, <<>>)
    [] OTHER -> tl

\* The switch with a ticket_update case that takes the frame's timeline.
dispatchTimelineTicketUpdatePatches(f, tl) ==
  CASE f.type \in {"initial_data", "timeline_update", "ticket_update"} ->
         IF Truthy(f.timeline) THEN setTimeline(tl, f.timeline.value) ELSE tl
    [] OTHER -> tl

\* The switch on the type tag, as it acts on timeline.
dispatchTimeline(f, tl) ==
  CASE f.type = "initial_data" ->
         IF Truthy(f.timeline) THEN setTimeline(tl, f.timeline.value) ELSE tl
    [] f.type = "timeline_update" ->
         IF Truthy(f.timeline) THEN setTimeline(tl, f.timeline.value) ELSE tl
    [] OTHER -> tl

\* The switch with the initial_data assignment of pendingTickets nested
\* under the test of the timeline field.
dispatchPendingTicketsNested(f, pt) ==
  CASE f.type = "initial_data" ->
         IF Truthy(f.timeline) /\ Truthy(f.pending_tickets)
           THEN setPendingTickets(pt, f.pending_tickets.value) ELSE pt
    [] f.type = "pending_tickets_update" ->
         IF Truthy(f.pending_tickets)
           THEN setPendingTickets(pt, f.pending_tickets.value) ELSE pt
    [] OTHER -> pt

\* The switch on the type tag, as it acts on pendingTickets.
dispatchPendingTickets(f, pt) ==
  CASE f.type = "initial_data" ->
         IF Truthy(f.pending_tickets)
           THEN setPendingTickets(pt, f.pending_tickets.value) ELSE pt
    [] f.type = "pending_tickets_update" ->
         IF Truthy(f.pending_tickets)
           THEN setPendingTickets(pt, f.pending_tickets.value) ELSE pt
    [] OTHER -> pt

\* The switch with an error case that also sets the status.
dispatchStatusErrorCase(f, status) ==
  IF f.type = "error" THEN "Error" ELSE status

\* The switch on the type tag, as it acts on connectionStatus: no case
\* calls setConnectionStatus.
dispatchStatus(f, status) == status

\* A subscribe effect that declares the subscription on the first
\* connection only.
subscribeEffectFirstOnly(changed, rs, ws, w, q) ==
  IF changed /\ rs = OPEN /\ ~reopened
    THEN sendMessage(SubscribeFrame, ws, w, q)
    ELSE [wire |-> w, queue |-> q]

\* The subscribe effect: runs when readyState changed; sends when OPEN.
subscribeEffect(changed, rs, ws, w, q) ==
  IF changed /\ rs = OPEN
    THEN sendMessage(SubscribeFrame, ws, w, q)
    ELSE [wire |-> w, queue |-> q]

\* The ping effect without its cleanup: an interval once started is never
\* cleared.
pingEffectNoCleanup(changed, rs, active) ==
  IF changed THEN (rs = OPEN \/ active) ELSE active

\* The ping effect: on a readyState change the previous interval is cleared
\* and a new one is started when OPEN.
pingEffect(changed, rs, active) ==
  IF changed THEN rs = OPEN ELSE active

\* ------------------------------------------------------------------ commit
\* React commits the outstanding state and runs the effects whose
\* dependencies changed, in declaration order: the library's queue flush,
\* then the hook's dispatch, status, subscribe and ping effects.
Render ==
  /\ UNCHANGED pageVars
  /\ mounted
  /\ CommitPending
  /\ LET changed    == libReadyState # readyState
         flushed    == IF changed /\ libReadyState = OPEN
                         THEN flushQueue(messageQueue, webSocket, wire, <<>>)
                         ELSE [wire |-> wire, queue |-> messageQueue]
         doDispatch == messagePending /\ lastJsonMessage # NullMessage
         sent       == subscribeEffect(changed, libReadyState, webSocket,
                                       flushed.wire, flushed.queue)
     IN  /\ readyState' = libReadyState
         /\ renderedStatus' = connectionStatus
         /\ messagePending' = FALSE
         /\ lastMessage' = IF doDispatch THEN lastJsonMessage ELSE lastMessage
         /\ timeline' = IF doDispatch
                          THEN dispatchTimeline(lastJsonMessage, timeline)
                          ELSE timeline
         /\ pendingTickets' = IF doDispatch
                                THEN dispatchPendingTickets(lastJsonMessage, pendingTickets)
                                ELSE pendingTickets
         /\ dispatched' = IF doDispatch THEN dispatched + 1 ELSE dispatched
         /\ redelivered' = IF doDispatch
                             THEN lastJsonMessage = lastMessage
                             ELSE redelivered
         /\ prevMalformed' = IF doDispatch
                               THEN lastMessage = UNPARSABLE_JSON_OBJECT
                               ELSE prevMalformed
         /\ connectionStatus' =
              LET dispatchedStatus ==
                    IF doDispatch
                      THEN dispatchStatus(lastJsonMessage, connectionStatus)
                      ELSE connectionStatus
              IN  IF changed THEN connectionStatusMap(libReadyState)
                             ELSE dispatchedStatus
         /\ lostStatus' = "none"
         /\ wire' = sent.wire
         /\ messageQueue' = sent.queue
         /\ pingInterval' = pingEffect(changed, libReadyState, pingInterval)
  /\ UNCHANGED <<lastJsonMessage, delivered, lastSend>>
  /\ UNCHANGED <<connVars, mountVars, envVars>>

Next ==
  \/ SocketOpen
  \/ \E abnormal \in BOOLEAN : SocketClose(abnormal)
  \/ ReconnectTimerFires
  \/ \E f \in AllFrames : Message(f)
  \/ PingTick
  \/ \E m \in ConsumerMessages : ConsumerSend(m)
  \/ Render
  \/ Unmount

Spec == Init /\ [][Next]_vars

\* The same program over the wider frame set.
SpecFrames == InitFrames /\ [][Next]_vars

\* The same program over the frames with absent, null and empty fields.
SpecFields == InitFields /\ [][Next]_vars

\* The program with its scheduling: React runs an outstanding commit, an
\* armed timeout elapses, and the server answers a connection attempt.
SpecRecover ==
  /\ InitRecover
  /\ [][Next]_vars
  /\ WF_vars(Render)
  /\ WF_vars(ReconnectTimerFires)
  /\ WF_vars(SocketOpen)

TypeOK ==
  /\ webSocket \in {"CONNECTING", "OPEN", "CLOSING", "CLOSED"}
  /\ libReadyState \in ReadyStates
  /\ readyState \in ReadyStates
  /\ connectionStatus \in StatusValues
  /\ renderedStatus \in StatusValues
  /\ reconnectCount \in 0..reconnectAttempts
  /\ Len(messageQueue) <= MaxQueue
  /\ Len(wire) <= MaxWire
  /\ delivered \in 0..MaxFrames
  /\ dispatched \in 0..delivered

\* =========================================================== the page
\* A run that follows config.js and Dashboard's Send Ticket button; the hook
\* and the modal stay as constructed.
InitPage ==
  /\ InitHook
  /\ inbound = InboundFrames
  /\ closeBudget = [limited |-> FALSE, left |-> 0]
  /\ env \in Envs
  /\ socketUrl = <<>>
  /\ InitDashboard
  /\ InitModal

\* The hook's render evaluates socketUrl.
EvaluateSocketUrl ==
  /\ socketUrl = <<>>
  /\ socketUrl' = socketUrlOf(API_BASE_URL(env))
  /\ UNCHANGED <<env, dashboardVars, modalVars, hookVars>>

\* -------------------------------------------------------------- Dashboard
\* The initialize request of the mount effect is answered.
InitializeResponse(ok) ==
  /\ initializeInFlight
  /\ initializeInFlight' = FALSE
  /\ systemInitialized' = (ok \/ systemInitialized)
  /\ UNCHANGED <<processingTicket, rendered, sendInFlight>>
  /\ UNCHANGED <<configVars, modalVars, hookVars>>

\* A click on Send Ticket.  The button is enabled as of the last render and
\* the handler tests the processingTicket of that render; it sets the flag
\* and sends the request.  React renders the update before the next event
\* when the click is a task of its own (flushed), and in a microtask after
\* the current task when the click was dispatched from a running script.
handleSendTicket(flushed) ==
  /\ ~rendered.processingTicket /\ rendered.systemInitialized
  /\ sendInFlight < MaxRequests
  /\ IF rendered.processingTicket
       THEN UNCHANGED <<processingTicket, sendInFlight, rendered>>
       ELSE /\ processingTicket' = TRUE
            /\ sendInFlight' = sendInFlight + 1
            /\ rendered' = IF flushed
                             THEN [processingTicket |-> TRUE,
                                   systemInitialized |-> systemInitialized]
                             ELSE rendered
  /\ UNCHANGED <<systemInitialized, initializeInFlight>>
  /\ UNCHANGED <<configVars, modalVars, hookVars>>

\* The send request completes (ok or not) or fails: finally
\* setProcessingTicket(false).
SendResponse(outcome) ==
  /\ sendInFlight > 0
  /\ sendInFlight' = sendInFlight - 1
  /\ processingTicket' = FALSE
  /\ UNCHANGED <<systemInitialized, rendered, initializeInFlight>>
  /\ UNCHANGED <<configVars, modalVars, hookVars>>

\* React renders Dashboard after a state update it has not rendered yet.
DashboardRender ==
  /\ rendered # [processingTicket |-> processingTicket,
                 systemInitialized |-> systemInitialized]
  /\ rendered' = [processingTicket |-> processingTicket,
                  systemInitialized |-> systemInitialized]
  /\ UNCHANGED <<processingTicket, systemInitialized, initializeInFlight, sendInFlight>>
  /\ UNCHANGED <<configVars, modalVars, hookVars>>

\* ------------------------------------------------------- AgentUploadModal
\* The parent opens the modal.
OpenModal ==
  /\ ~isOpen
  /\ isOpen' = TRUE
  /\ UNCHANGED <<files, loading, response, modalStatus, error,
                 uploadsInFlight, pollIntervals, pollsInFlight, resetInFlight>>
  /\ UNCHANGED <<configVars, dashboardVars, hookVars>>

\* The parent closes the modal; the isOpen effect resets the state cells.
CloseModal ==
  /\ isOpen
  /\ isOpen' = FALSE
  /\ files' = "none"
  /\ response' = FALSE
  /\ modalStatus' = "null"
  /\ error' = FALSE
  /\ loading' = FALSE
  /\ UNCHANGED <<uploadsInFlight, pollIntervals, pollsInFlight, resetInFlight>>
  /\ UNCHANGED <<configVars, dashboardVars, hookVars>>

\* handleFileChange: PDF files ("pdf") or a selection with another file
\* ("other").
handleFileChange(selection) ==
  /\ isOpen
  /\ files' = selection
  /\ error' = FALSE
  /\ UNCHANGED <<isOpen, loading, response, modalStatus,
                 uploadsInFlight, pollIntervals, pollsInFlight, resetInFlight>>
  /\ UNCHANGED <<configVars, dashboardVars, hookVars>>

\* handleUploadClick up to the upload request; the button is disabled while
\* loading or without files.
handleUploadClick ==
  /\ isOpen /\ ~loading /\ files # "none"
  /\ uploadsInFlight < MaxUploads
  /\ IF files = "other"
       THEN /\ error' = TRUE
            /\ UNCHANGED <<loading, response, modalStatus, uploadsInFlight>>
       ELSE /\ loading' = TRUE
            /\ response' = FALSE
            /\ error' = FALSE
            /\ modalStatus' = "uploading"
            /\ uploadsInFlight' = uploadsInFlight + 1
  /\ UNCHANGED <<isOpen, files, pollIntervals, pollsInFlight, resetInFlight>>
  /\ UNCHANGED <<configVars, dashboardVars, hookVars>>

\* The upload request is answered: on success setInterval starts a polling
\* timer; otherwise the catch branch runs.
UploadResponse(ok) ==
  /\ uploadsInFlight > 0
  /\ uploadsInFlight' = uploadsInFlight - 1
  /\ IF ok
       THEN /\ \E i \in (1..MaxTimers) \ pollIntervals :
                 pollIntervals' = pollIntervals \cup {i}
            /\ UNCHANGED <<error, loading>>
       ELSE /\ error' = TRUE
            /\ loading' = FALSE
            /\ UNCHANGED pollIntervals
  /\ UNCHANGED <<isOpen, files, response, modalStatus, pollsInFlight, resetInFlight>>
  /\ UNCHANGED <<configVars, dashboardVars, hookVars>>

\* A polling timer fires: pollStatus sends GET /api/agent/status.  The model
\* keeps one request per timer in flight.
PollTick(i) ==
  /\ i \in pollIntervals
  /\ i \notin pollsInFlight
  /\ pollsInFlight' = pollsInFlight \cup {i}
  /\ UNCHANGED <<isOpen, files, loading, response, modalStatus, error,
                 uploadsInFlight, pollIntervals, resetInFlight>>
  /\ UNCHANGED <<configVars, dashboardVars, hookVars>>

\* The status request is answered ("failed": fetch threw): pollStatus sets
\* the state cells and, when it returns true, the timer clears itself.
PollResult(i, result) ==
  /\ i \in pollsInFlight
  /\ pollsInFlight' = pollsInFlight \ {i}
  /\ modalStatus' = IF result = "failed" THEN modalStatus ELSE result
  /\ response' = (result = "completed" \/ response)
  /\ error' = (result \in {"error", "failed"} \/ error)
  /\ loading' = IF result = "processing" THEN loading ELSE FALSE
  /\ pollIntervals' = IF result = "processing" THEN pollIntervals
                                               ELSE pollIntervals \ {i}
  /\ UNCHANGED <<isOpen, files, uploadsInFlight, resetInFlight>>
  /\ UNCHANGED <<configVars, dashboardVars, hookVars>>

\* handleReset up to the reset request; the button is part of the results.
handleReset ==
  /\ isOpen /\ response
  /\ ~resetInFlight
  /\ resetInFlight' = TRUE
  /\ UNCHANGED <<isOpen, files, loading, response, modalStatus, error,
                 uploadsInFlight, pollIntervals, pollsInFlight>>
  /\ UNCHANGED <<configVars, dashboardVars, hookVars>>

\* The reset request is answered.
ResetResponse(ok) ==
  /\ resetInFlight
  /\ resetInFlight' = FALSE
  /\ IF ok
       THEN /\ files' = "none"
            /\ response' = FALSE
            /\ modalStatus' = "null"
            /\ error' = FALSE
            /\ loading' = FALSE
       ELSE /\ error' = TRUE
            /\ UNCHANGED <<files, response, modalStatus, loading>>
  /\ UNCHANGED <<isOpen, uploadsInFlight, pollIntervals, pollsInFlight>>
  /\ UNCHANGED <<configVars, dashboardVars, hookVars>>

\* A run that follows AgentUploadModal; the hook and Dashboard stay as
\* constructed.
InitModalPage ==
  /\ InitHook
  /\ inbound = InboundFrames
  /\ closeBudget = [limited |-> FALSE, left |-> 0]
  /\ InitPageIdle

NextPage ==
  \/ EvaluateSocketUrl
  \/ \E ok \in BOOLEAN : InitializeResponse(ok)
  \/ \E flushed \in BOOLEAN : handleSendTicket(flushed)
  \/ \E outcome \in {"ok", "not ok", "throws"} : SendResponse(outcome)
  \/ DashboardRender

NextModal ==
  \/ OpenModal
  \/ CloseModal
  \/ \E selection \in {"pdf", "other"} : handleFileChange(selection)
  \/ handleUploadClick
  \/ \E ok \in BOOLEAN : UploadResponse(ok)
  \/ \E i \in 1..MaxTimers : PollTick(i)
  \/ \E i \in 1..MaxTimers, result \in {"processing", "completed", "error", "failed"} :
       PollResult(i, result)
  \/ handleReset
  \/ \E ok \in BOOLEAN : ResetResponse(ok)

SpecPage == InitPage /\ [][NextPage]_vars

SpecModal == InitModalPage /\ [][NextModal]_vars

\* The returned isConnected, as of the last commit.
isConnected == readyState = OPEN

\* ================================================================ helpers
RECURSIVE Count(_, _)
Count(seq, x) ==
  IF seq = <<>> THEN 0
  ELSE (IF Head(seq) = x THEN 1 ELSE 0) + Count(Tail(seq), x)

\* The step is a commit whose dispatch effect processes lastJsonMessage.
DispatchStep ==
  /\ messagePending /\ ~messagePending' /\ lastJsonMessage # NullMessage
  /\ dispatched' = dispatched + 1

\* ================================================================ claims

\* C1: after timeline_update frames carrying a timeline array have been
\* dispatched, timeline equals the array of the last frame dispatched,
\* element for element and in the server's order.
C1_TimelineIsLastFrame ==
  (lastMessage.type = "timeline_update" /\ Truthy(lastMessage.timeline))
    => timeline = lastMessage.timeline.value

\* A second dispatched frame, timeline_update with the unsorted array,
\* has replaced what the first one left.
C1_Witness ==
  /\ dispatched = 2
  /\ ~redelivered
  /\ lastMessage = Frame("timeline_update", Field(<<2, 1>>), Absent)
  /\ timeline = <<2, 1>>

\* C2: every frame delivered on the connection is dispatched exactly once,
\* in delivery order, also when several frames arrive before the next
\* commit: while the hook is mounted, once no frame is waiting for a commit,
\* as many frames have been dispatched as were delivered.
C2_EveryFrameDispatched ==
  (mounted /\ ~messagePending) => dispatched = delivered

\* C3: on every connection exactly one subscribe frame is sent and it is
\* the first client-originated frame transmitted on that connection.
C3_SubscribeFirst ==
  /\ wire # <<>> => wire[1] = SubscribeFrame
  /\ Count(wire, SubscribeFrame) <= 1
  /\ (webSocket = "OPEN" /\ readyState = OPEN) => Count(wire, SubscribeFrame) = 1

\* C4: while the socket is not open no heartbeat callback sends or
\* enqueues a ping: the number of pings handed to the library does not grow.
C4_NoPingWhileClosed ==
  [][webSocket # "OPEN" =>
       Count(messageQueue' \o wire', PingFrame) <= Count(messageQueue \o wire, PingFrame)]_vars

\* C5: after an abnormal close connectionStatus is Disconnected; once the
\* reconnection delay has elapsed and the commit has run it is Connecting;
\* and when the next connection has opened and been committed the same
\* subscription declaration has been sent on it, exactly once.
C5_ReconnectResubscribes ==
  (mounted /\ lastClose = "abnormal") =>
    /\ webSocket = "CLOSED" => connectionStatus = "Disconnected"
    /\ (webSocket = "CONNECTING" /\ ~CommitPending) => connectionStatus = "Connecting"
    /\ (reopened /\ webSocket = "OPEN" /\ readyState = OPEN) =>
         /\ Cardinality({i \in 1..Len(wire) : wire[i].type = "subscribe"}) = 1
         /\ \E i \in 1..Len(wire) :
              /\ wire[i].type = "subscribe"
              /\ wire[i].subscriptions =
                   <<"timeline_updates", "pending_tickets_updates", "ticket_updates">>

\* The second connection is open after an abnormal close and carries the
\* subscription declaration.
C5_Witness ==
  /\ lastClose = "abnormal"
  /\ reopened
  /\ webSocket = "OPEN"
  /\ readyState = OPEN
  /\ connectionStatus = "Connected"
  /\ Count(wire, SubscribeFrame) = 1

C7_ReconnectionBounded ==
  /\ reconnectCount <= 10
  /\ Len(reconnectTimers) <= 1
  /\ \A i \in 1..Len(reconnectTimers) : reconnectTimers[i] = 3000

\* The tenth attempt is under way.
C7_Witness ==
  /\ reconnectCount = 10
  /\ webSocket = "CONNECTING"
  /\ reconnectTimers = <<>>

\* Attempts exhausted: the tenth attempt has failed and nothing is scheduled.
Exhausted ==
  /\ reconnectCount = reconnectAttempts
  /\ webSocket = "CLOSED"
  /\ reconnectTimers = <<>>

\* C8: once the attempts are exhausted no connection attempt is made again,
\* connectionStatus of the mounted hook is Disconnected from then on, and
\* timeline and pendingTickets keep their values.
C8_ExhaustedIsTerminal ==
  /\ []((mounted /\ Exhausted) => connectionStatus = "Disconnected")
  /\ [][Exhausted => /\ Exhausted'
                     /\ timeline' = timeline
                     /\ pendingTickets' = pendingTickets]_vars

\* Exhausted, committed, with data from an earlier connection still there.
C8_Witness ==
  /\ mounted
  /\ Exhausted
  /\ ~CommitPending
  /\ renderedStatus = "Disconnected"
  /\ timeline = <<2, 1>>
  /\ pendingTickets = <<2, 1>>

\* C9: dispatching a frame whose type tag is not a defined one leaves
\* timeline, pendingTickets and connectionStatus as they were and does not
\* close the socket.
C9_UnknownTypeIsNoOp ==
  [][(DispatchStep /\ lastJsonMessage.type \notin DefinedTags)
       => /\ timeline' = timeline
          /\ pendingTickets' = pendingTickets
          /\ connectionStatus' = connectionStatus
          /\ webSocket' = webSocket
          /\ libReadyState' = libReadyState]_vars

\* The unknown frame (carrying timeline <<1>>) was dispatched after a
\* timeline_update, and timeline still holds that update's array.
C9_Witness ==
  /\ lastMessage.type = "unsupported_xyz"
  /\ dispatched = 2
  /\ timeline = <<2, 1>>
  /\ pendingTickets = <<>>
  /\ webSocket = "OPEN"
  /\ connectionStatus = "Connected"

\* C10: a pending_tickets_update replaces pendingTickets by the frame's
\* array, and dispatching the same frame again leaves pendingTickets as the
\* first dispatch left it.
C10_PendingReplaceIdempotent ==
  /\ []((lastMessage.type = "pending_tickets_update" /\ Truthy(lastMessage.pending_tickets))
          => pendingTickets = lastMessage.pending_tickets.value)
  /\ [][(DispatchStep /\ lastJsonMessage.type = "pending_tickets_update"
                      /\ lastJsonMessage = lastMessage)
          => pendingTickets' = pendingTickets]_vars

\* The same pending_tickets_update was dispatched twice in a row.
C10_Witness ==
  /\ redelivered
  /\ dispatched = 2
  /\ lastMessage = Frame("pending_tickets_update", Absent, Field(<<2, 1>>))
  /\ pendingTickets = <<2, 1>>

\* C11: dispatching an initial_data frame replaces timeline by the frame's
\* timeline when that field is present and leaves it unchanged when it is
\* absent, and does the same for pendingTickets with pending_tickets,
\* neither depending on the other field.
C11_InitialDataIndependent ==
  [][(DispatchStep /\ lastJsonMessage.type = "initial_data")
       => /\ timeline' = IF lastJsonMessage.timeline.present
                           THEN lastJsonMessage.timeline.value
                           ELSE timeline
          /\ pendingTickets' = IF lastJsonMessage.pending_tickets.present
                                 THEN lastJsonMessage.pending_tickets.value
                                 ELSE pendingTickets]_vars

\* An initial_data frame with only pending_tickets was dispatched after one
\* with only timeline: each collection holds what its own frame carried.
C11_Witness ==
  /\ dispatched = 2
  /\ lastMessage = Frame("initial_data", Absent, Field(<<2, 1>>))
  /\ timeline = <<1>>
  /\ pendingTickets = <<2, 1>>

\* C12: once the hook instance is unmounted it stays unmounted and no new
\* socket is opened by it: its socket is closing or closed and never goes
\* back to connecting or open.
C12_TeardownDisablesReconnect ==
  /\ [](~mounted => webSocket \in {"CLOSING", "CLOSED"})
  /\ [][~mounted => /\ ~mounted'
                    /\ webSocket' \in {webSocket, "CLOSED"}
                    /\ wire' = wire]_vars

\* The hook was unmounted while connected, the socket then closed, the
\* reconnection timeout that the close armed has elapsed, and there is no
\* new socket.
C12_Witness ==
  /\ ~mounted
  /\ libReadyState = OPEN
  /\ webSocket = "CLOSED"
  /\ reconnectCount = 1
  /\ reconnectTimers = <<>>

\* C13: after the unmount no reconnection timer is pending, no heartbeat
\* interval is active and the socket is closing or closed, in every
\* reachable state.
C13_TeardownReleasesAll ==
  ~mounted => /\ reconnectTimers = <<>>
              /\ ~pingInterval
              /\ webSocket \in {"CLOSING", "CLOSED"}

\* C14: timeline and pendingTickets change only in the dispatch of an
\* inbound frame: socket open, close and error, a reconnection attempt, a
\* heartbeat tick, the subscribe frame, a consumer send and the unmount
\* leave both as they were.
C14_SingleWriter ==
  [][(timeline' # timeline \/ pendingTickets' # pendingTickets) => DispatchStep]_vars

\* The connection was lost and a reconnection attempt is under way while
\* both collections still hold the data received on the first connection.
C14_Witness ==
  /\ mounted
  /\ lastClose = "abnormal"
  /\ reconnectCount = 1
  /\ webSocket = "CONNECTING"
  /\ renderedStatus = "Connecting"
  /\ timeline = <<2, 1>>
  /\ pendingTickets = <<2, 1>>

\* C15: dispatching a ticket_update, connection_established or error frame
\* leaves timeline and pendingTickets unchanged, also when the frame carries
\* timeline or pending_tickets fields.
C15_InformationalFramesNoOp ==
  [][(DispatchStep /\ lastJsonMessage.type \in {"ticket_update", "connection_established", "error"})
       => /\ timeline' = timeline
          /\ pendingTickets' = pendingTickets]_vars

\* A ticket_update carrying both fields was dispatched after a
\* timeline_update; timeline holds the update's array, pendingTickets is
\* still empty.
C15_Witness ==
  /\ dispatched = 2
  /\ lastMessage = Frame("ticket_update", Field(<<1>>), Field(<<2, 1>>))
  /\ timeline = <<2, 1>>
  /\ pendingTickets = <<>>

\* C16: dispatching an inbound frame, a frame of type error included, leaves
\* connectionStatus as it was, does not close the socket and arms no
\* reconnection.
C16_DispatchLeavesConnection ==
  [][DispatchStep => /\ connectionStatus' = connectionStatus
                     /\ webSocket' = webSocket
                     /\ reconnectTimers' = reconnectTimers
                     /\ reconnectCount' = reconnectCount]_vars

\* A server frame of type error has been dispatched on the open connection.
C16_Witness ==
  /\ lastMessage.type = "error"
  /\ ~CommitPending
  /\ connectionStatus = "Connected"
  /\ webSocket = "OPEN"
  /\ reconnectTimers = <<>>

\* C17: receiving a frame closes no socket and writes neither collection;
\* dispatching what the library hands out for an undecodable frame leaves
\* timeline, pendingTickets, connectionStatus and the socket as they were;
\* and a frame received after it is committed and dispatched as usual.
C17_MalformedFrameDropped ==
  /\ [][delivered' = delivered + 1
          => /\ webSocket' = webSocket
             /\ timeline' = timeline
             /\ pendingTickets' = pendingTickets
             /\ connectionStatus' = connectionStatus]_vars
  /\ [][(DispatchStep /\ lastJsonMessage = UNPARSABLE_JSON_OBJECT)
          => /\ timeline' = timeline
             /\ pendingTickets' = pendingTickets
             /\ connectionStatus' = connectionStatus
             /\ webSocket' = webSocket]_vars
  /\ [][(lastMessage = UNPARSABLE_JSON_OBJECT /\ delivered' = delivered + 1
           /\ lastJsonMessage' # UNPARSABLE_JSON_OBJECT)
          => messagePending']_vars
  /\ [][(DispatchStep /\ lastMessage = UNPARSABLE_JSON_OBJECT
           /\ lastJsonMessage.type = "timeline_update"
           /\ lastJsonMessage.timeline.present)
          => timeline' = lastJsonMessage.timeline.value]_vars

\* The timeline_update that followed a malformed frame has been dispatched
\* on the same, still open connection.
C17_Witness ==
  /\ prevMalformed
  /\ dispatched = 2
  /\ lastMessage = Frame("timeline_update", Field(<<2, 1>>), Absent)
  /\ timeline = <<2, 1>>
  /\ webSocket = "OPEN"
  /\ ~reopened

\* C18: in every reachable state connectionStatus is one of the six status
\* values, and connectionStatusMap yields one of them for every readyState
\* of the library, never undefined.
C18_StatusIsOneOfSix ==
  /\ connectionStatus \in StatusValues
  /\ connectionStatus # "undefined"
  /\ \A rs \in ReadyStates : connectionStatusMap(rs) \in StatusValues

\* The status was set from readyState by the status effect after the
\* second reconnection attempt started.
C18_Witness ==
  /\ mounted
  /\ ~CommitPending
  /\ reconnectCount = 2
  /\ readyState = CONNECTING
  /\ connectionStatus = "Connecting"

\* C19: once the commit has run, an open socket has status Connected and a
\* running heartbeat; a cleanly closed socket has status Disconnected and
\* no heartbeat; a socket closed by an error has status Error and no
\* heartbeat.
C19_OpenCloseErrorStatus ==
  (mounted /\ ~CommitPending) =>
     /\ webSocket = "OPEN" => (connectionStatus = "Connected" /\ pingInterval)
     /\ (webSocket = "CLOSED" /\ lastClose = "clean")
          => (connectionStatus = "Disconnected" /\ ~pingInterval)
     /\ (webSocket = "CLOSED" /\ lastClose = "abnormal")
          => (connectionStatus = "Error" /\ ~pingInterval)

\* C20: every value assigned to connectionStatus is exposed by a commit
\* before another value overwrites it; in particular the value Error that
\* onError assigns is never overwritten unrendered.
C20_EveryStatusRendered ==
  lostStatus # "Error"

\* C23: the hook instance has at most one live socket: a socket is created
\* only when the previous one has closed, a reconnection timeout is pending
\* only while the socket is closed, and at most one timeout is pending.
C23_OneLiveSocket ==
  /\ [](Len(reconnectTimers) <= 1)
  /\ [](reconnectTimers # <<>> => webSocket = "CLOSED")
  /\ [][(webSocket' = "CONNECTING" /\ webSocket # "CONNECTING")
          => webSocket = "CLOSED"]_vars

\* A second reconnection attempt is connecting: the socket of the first
\* attempt closed before it, and nothing else is pending.
C23_Witness ==
  /\ mounted
  /\ webSocket = "CONNECTING"
  /\ reconnectCount = 2
  /\ reconnectTimers = <<>>
  /\ lastClose = "clean"

\* C24: a heartbeat interval exists only while the hook is mounted and was
\* last rendered with readyState OPEN; an interval is started only in a
\* commit that found none running; and every commit that changes readyState
\* away from OPEN, and the unmount, leaves no interval.
C24_HeartbeatSymmetric ==
  /\ [](pingInterval => (mounted /\ readyState = OPEN))
  /\ [][(pingInterval' /\ readyState' # readyState) => ~pingInterval]_vars
  /\ [][((readyState' # readyState /\ readyState' # OPEN) \/ ~mounted')
          => ~pingInterval']_vars

\* After a reconnection the interval of the second connection is running;
\* the one of the first connection was cleared when that connection closed.
C24_Witness ==
  /\ mounted
  /\ reopened
  /\ pingInterval
  /\ readyState = OPEN
  /\ webSocket = "OPEN"

\* C25: in every state the hook has returned to its consumer, isConnected
\* is true exactly when the returned connectionStatus is Connected.
C25_IsConnectedAgreesWithStatus ==
  mounted => (isConnected <=> renderedStatus = "Connected")

\* The hook has returned Disconnected with isConnected false after a socket
\* error on a connection that had been rendered as Connected.
C25_Witness ==
  /\ mounted
  /\ ~CommitPending
  /\ lastClose = "abnormal"
  /\ ~isConnected
  /\ renderedStatus = "Disconnected"
  /\ Count(wire, SubscribeFrame) = 1

\* C26: no client-originated frame outlives the connection it was issued
\* on: no frame handed to the library while the socket was closed is
\* transmitted on a later connection, so the first frame on a connection
\* opened by a reconnection is that connection's own subscribe frame.
C26_NoFrameOutlivesConnection ==
  (reopened /\ wire # <<>>) => wire[1] = SubscribeFrame

\* C28: while the hook is mounted and fewer than reconnectAttempts attempts
\* have been counted, every close of the socket, clean or abnormal, arms
\* one reconnection timeout of reconnectInterval.
C28_EveryCloseRetried ==
  [][(mounted /\ webSocket # "CLOSED" /\ webSocket' = "CLOSED"
        /\ reconnectCount < reconnectAttempts)
       => reconnectTimers' = Append(reconnectTimers, reconnectInterval)]_vars

\* A clean close of the connected socket has armed the reconnection timeout.
C28_Witness ==
  /\ mounted
  /\ lastClose = "clean"
  /\ webSocket = "CLOSED"
  /\ Count(wire, SubscribeFrame) = 1
  /\ reconnectCount = 0
  /\ reconnectTimers = <<reconnectInterval>>

\* C27: dispatching a timeline_update whose timeline field is absent or
\* null leaves timeline unchanged, and one whose field is an array, the
\* empty array included, replaces timeline by that array; the same holds
\* for pending_tickets_update, pending_tickets and pendingTickets.
C27_AbsentOrNullKeepsEmptyReplaces ==
  /\ [][(DispatchStep /\ lastJsonMessage.type = "timeline_update")
          => timeline' = IF lastJsonMessage.timeline \in {Absent, Null}
                           THEN timeline
                           ELSE lastJsonMessage.timeline.value]_vars
  /\ [][(DispatchStep /\ lastJsonMessage.type = "pending_tickets_update")
          => pendingTickets' = IF lastJsonMessage.pending_tickets \in {Absent, Null}
                                 THEN pendingTickets
                                 ELSE lastJsonMessage.pending_tickets.value]_vars

\* A timeline_update with timeline null was dispatched after one with a
\* non-empty array, and timeline still holds that array.
C27_Witness ==
  /\ dispatched = 2
  /\ lastMessage = Frame("timeline_update", Null, Absent)
  /\ timeline = <<2, 1>>

\* The hook has returned Connected on an open socket on which it has sent
\* its subscribe frame.
Recovered ==
  /\ webSocket = "OPEN"
  /\ isConnected
  /\ renderedStatus = "Connected"
  /\ Count(wire, SubscribeFrame) >= 1

\* C21: whenever the socket of the mounted hook has closed and the server
\* accepts a connection within the attempts, the hook eventually returns
\* Connected again with a subscribe frame sent on the new socket, unless it
\* is unmounted first; no consumer action is needed.
C21_TransportFailureRecovered ==
  (mounted /\ webSocket = "CLOSED") ~> (~mounted \/ Recovered)

\* Recovered on a connection that a reconnection attempt opened.
C21_Witness ==
  /\ mounted
  /\ reopened
  /\ lastClose = "abnormal"
  /\ Recovered
  /\ ~CommitPending
  /\ lastSend = "none"

\* ------------------------------------------------------------------- C22
\* The base address with a leading scheme replaced by its WebSocket
\* counterpart; an address without a scheme is left as it is.
WebSocketForm(base) ==
  IF base # <<>> /\ Head(base) = "http://" THEN <<"ws://">> \o Tail(base)
  ELSE IF base # <<>> /\ Head(base) = "https://" THEN <<"wss://">> \o Tail(base)
  ELSE base

\* C22: for every base address config.API_BASE_URL can take (the override,
\* the development default, the production default) the socket endpoint is
\* that address with http:// turned into ws:// and https:// into wss://,
\* followed by /ws/tickets.
C22_EndpointMatchesBaseScheme ==
  socketUrl # <<>> =>
    socketUrl = WebSocketForm(API_BASE_URL(env)) \o <<"/ws/tickets">>

\* A secure override has been turned into a wss:// endpoint.
C22_Witness ==
  /\ env.VITE_API_URL = <<"https://", "api.example.com", "/v1">>
  /\ socketUrl = <<"wss://", "api.example.com", "/v1", "/ws/tickets">>

\* ------------------------------------------------------------------- C29
\* C29: at most one POST /api/tickets/send request of a Dashboard instance
\* is in flight at any time, also when a second click arrives before the
\* render that disables the button.
C29_AtMostOneSendInFlight == sendInFlight <= 1

\* ------------------------------------------------------------------- C30
\* C30: the status-polling timer does not outlive its analysis: once the
\* modal is closed no polling timer is left running (so no further status
\* request is issued and no late result sets response, error, status or
\* loading).
C30_NoPollingAfterClose == ~isOpen => pollIntervals = {}

====
